---- MODULE Spec2Model ----
(***************************************************************************)
(* A model of herrevilkitten/telnet-generator:                             *)
(*   - EventResolver (src/src/event-resolver.ts), the push/pull queue;     *)
(*   - the "data" handler and handleTelnetCommand of TelnetConnection      *)
(*     (src/src/index.ts, and the older src/src/connection.ts), the Telnet *)
(*     command framer.                                                     *)
(*   - the lifecycle of TelnetConnection (src/src/index.ts): its socket    *)
(*     handlers, receive() and the methods that use the socket;            *)
(*   - AbstractTelnetServer (src/unnamed/part_003): listen(), stop() and   *)
(*     the callbacks of its net.Server.                                    *)
(*                                                                         *)
(* JavaScript values are records tagged with their type in the field t,    *)
(* so that the truthiness test of EventResolver.next() can be modelled:    *)
(* strings [t |-> "string", s], numbers [t |-> "number", n], objects       *)
(* [t |-> "object", ...] and undefined [t |-> "undefined"].                *)
(***************************************************************************)
EXTENDS Integers, Sequences, FiniteSets, TLC

VARIABLES
    resolver,   \* the EventResolver under test: eventList, resolveList, promises
    added,      \* history: the arguments of the add() calls, in call order
    hist,       \* history: the calls made, "add" or "next", in call order
    trace,      \* history: the value of resolver at construction and after each call
    data,       \* the chunk handed to the socket's "data" handler
    pc,         \* "idle" before the handler ran, then the file of the handler that ran
    connection, \* the TelnetConnection's resolver (its event queue)
    buffer,     \* the handler's local buffer[0 .. copied), the payload bytes
    connected,  \* TelnetConnection.connected
    socket,     \* the socket: its writable flag and the write() calls made on it
    gen,        \* the consumer's receive() generator: "suspended", "awaiting", "done"
    yielded,    \* history: the events receive() has yielded, in order
    completed,  \* history: the number of receive() sequences that have completed
    calls,      \* history: the calls of the methods that use the socket, in call order
    chunks,     \* history: the chunks delivered to the "data" handler, in order
    signals,    \* history: the signals the socket raised, with their arguments
    array,      \* the caller's array last handed to sendCommand: <<>> or <<contents>>
    receivers,  \* two receive() generators pulled on the one connection, and their yields
    server,     \* the AbstractTelnetServer: resolver, connected, state of its net.Server
    listenGen,  \* the consumer's listen() generator: its position
    served,     \* history: the events listen() has yielded, in order
    log         \* history: the callbacks and stop() calls of the server, in call order

vars == <<resolver, added, hist, trace, data, pc, connection, buffer,
          connected, socket, gen, yielded, completed, calls, chunks,
          signals, array, receivers,
          server, listenGen, served, log>>

queueVars == <<resolver, added, hist, trace>>
framerVars == <<data, pc, connection, buffer>>
connVars == <<connected, socket, gen, yielded, completed, calls, chunks,
              signals, array, receivers>>
serverVars == <<server, listenGen, served, log>>

----------------------------------------------------------------------------
(* Bounds of the model.                                                    *)

\* the number of callbacks of a connection and a server run side by side
MaxCallbacks == 5
\* the number of add() calls of a behaviour
MaxAdds == 3
\* the number of next() calls of a behaviour
MaxNexts == 3
\* the length of a chunk handed to the "data" handler
MaxChunkLen == 6
\* the number of events the socket handlers of a connection add to its queue
MaxEvents == 3
\* the number of send() and sendln() calls made on a connection
MaxCalls == 2
\* the number of receive() sequences a consumer starts after the first
MaxReceives == 2
\* the number of callbacks and stop() calls of a server
MaxServerCalls == 4

----------------------------------------------------------------------------
(* JavaScript values.                                                      *)

JsString(s) == [t |-> "string", s |-> s]
JsNumber(n) == [t |-> "number", n |-> n]
JsUndefined == [t |-> "undefined"]

\* ToBoolean, as applied by `if (event)`: undefined, "" and 0 are falsy,
\* every object is truthy.
Truthy(v) ==
    CASE v.t = "undefined" -> FALSE
      [] v.t = "string"    -> v.s # ""
      [] v.t = "number"    -> v.n # 0
      [] OTHER             -> TRUE

\* Array.prototype.shift(): the first element, or undefined when empty.
ShiftValue(list) == IF Len(list) = 0 THEN JsUndefined ELSE Head(list)
ShiftRest(list) == IF Len(list) = 0 THEN list ELSE Tail(list)

----------------------------------------------------------------------------
(* EventResolver<EventType>.  A resolver is a record                       *)
(*   eventList   : the events added and not yet taken,                     *)
(*   resolveList : the resolve functions of the pending promises, each     *)
(*                 named by the index of the next() call that made it,     *)
(*   promises    : one entry per next() call, <<>> while pending and       *)
(*                 <<e>> once resolved with e.                             *)

NewResolver == [eventList |-> <<>>, resolveList |-> <<>>, promises |-> <<>>]

\* A mutant of add: the newest waiting consumer is served (pop for shift).
add_popsNewest(q, event) ==
    IF Len(q.resolveList) > 0
    THEN LET resolve == q.resolveList[Len(q.resolveList)]
         IN  [q EXCEPT !.resolveList = SubSeq(@, 1, Len(@) - 1),
                       !.promises[resolve] = <<event>>]
    ELSE [q EXCEPT !.eventList = Append(@, event)]

\* A mutant of add: a falsy event goes to the backlog even when a consumer
\* is waiting.
add_queuesFalsy(q, event) ==
    IF Len(q.resolveList) > 0 /\ Truthy(event)
    THEN LET resolve == Head(q.resolveList)
         IN  [q EXCEPT !.resolveList = Tail(@),
                       !.promises[resolve] = <<event>>]
    ELSE [q EXCEPT !.eventList = Append(@, event)]

\* A mutant of add: the event is also kept in the backlog when it is handed over.
add_keepsEvent(q, event) ==
    IF Len(q.resolveList) > 0
    THEN LET resolve == Head(q.resolveList)
         IN  [q EXCEPT !.resolveList = Tail(@),
                       !.promises[resolve] = <<event>>,
                       !.eventList = Append(@, event)]
    ELSE [q EXCEPT !.eventList = Append(@, event)]

add(q, event) ==
    IF Len(q.resolveList) > 0
    THEN LET resolve == Head(q.resolveList)
         IN  [q EXCEPT !.resolveList = Tail(@),
                       !.promises[resolve] = <<event>>]
    ELSE [q EXCEPT !.eventList = Append(@, event)]

\* The promise executor runs synchronously inside next(): the event is
\* shifted out first and tested for truthiness afterwards.
next(q) ==
    LET event == ShiftValue(q.eventList)
        rest == ShiftRest(q.eventList)
        call == Len(q.promises) + 1
    IN  IF Truthy(event)
        THEN [q EXCEPT !.eventList = rest,
                       !.promises = Append(@, <<event>>)]
        ELSE [q EXCEPT !.eventList = rest,
                       !.promises = Append(@, <<>>),
                       !.resolveList = Append(@, call)]

----------------------------------------------------------------------------
(* The specification of the EventResolver: any interleaving of add(e) and   *)
(* next() calls, e ranging over truthy and falsy values of EventType.       *)

\* the socket handed to the constructor; written is the history of write()
\* calls and ended the number of end() calls
NewSocket == [writable |-> TRUE, written |-> <<>>, ended |-> 0]

\* a TelnetServer just constructed: its net.Server is created and not yet
\* listening, and listen() has not been called
NewServer ==
    /\ server = [resolver |-> NewResolver, connected |-> TRUE, net |-> "created"]
    /\ listenGen = "new"
    /\ served = <<>>
    /\ log = <<>>

\* a TelnetConnection just constructed, receive() not yet pulled
\* the consumers that pull receive() sequences on the same connection
Consumers == {"A", "B"}

\* no receive() generator has been pulled, nothing has been yielded
NewReceivers ==
    [gens |-> [c \in Consumers |-> [gen |-> "suspended", promise |-> 0]],
     yielded |-> <<>>]

NewConnection ==
    /\ connected = TRUE
    /\ socket = NewSocket
    /\ gen = "suspended"
    /\ yielded = <<>>
    /\ completed = 0
    /\ calls = <<>>
    /\ chunks = <<>>
    /\ signals = <<>>
    /\ array = <<>>
    /\ receivers = NewReceivers

Events == {JsString("a"), JsString("b"), JsString(""), JsNumber(0)}

Add(event) ==
    /\ Len(added) < MaxAdds
    /\ resolver' = add(resolver, event)
    /\ trace' = Append(trace, resolver')
    /\ added' = Append(added, event)
    /\ hist' = Append(hist, "add")
    /\ UNCHANGED <<framerVars, connVars, serverVars>>

Next_ ==
    /\ Len(resolver.promises) < MaxNexts
    /\ resolver' = next(resolver)
    /\ trace' = Append(trace, resolver')
    /\ hist' = Append(hist, "next")
    /\ UNCHANGED <<added, framerVars, connVars, serverVars>>

QueueInit ==
    /\ resolver = NewResolver
    /\ added = <<>>
    /\ hist = <<>>
    /\ trace = <<NewResolver>>
    /\ data = <<>>
    /\ pc = "idle"
    /\ connection = NewResolver
    /\ buffer = <<>>
    /\ NewConnection
    /\ NewServer

QueueNext ==
    \/ \E event \in Events : Add(event)
    \/ Next_

SpecQueue == QueueInit /\ [][QueueNext]_vars

----------------------------------------------------------------------------
(* Properties of the EventResolver.                                        *)

Last(s) == s[Len(s)]

\* the resolver before the last call
pre == trace[Len(trace) - 1]

\* C1: FIFO, exactly once.  The k-th next() call resolves to the k-th added
\* event and to nothing else: it is resolved with added[k] as soon as both
\* the k-th add and the k-th next have been made, it is pending while fewer
\* than k events were added, and the events not yet taken are exactly the
\* backlog, in add order.  Stated for every value of EventType.
C1_FifoExactlyOnce ==
    /\ \A k \in 1..Len(resolver.promises) :
          resolver.promises[k] =
              IF k <= Len(added) THEN <<added[k]>> ELSE <<>>
    /\ resolver.eventList =
          SubSeq(added, Len(resolver.promises) + 1, Len(added))

\* hist[from + 1 ..] is m >= 1 next() calls followed by at most m add() calls
PreRegisteredFrom(from, m) ==
    /\ m >= 1
    /\ from + m <= Len(hist)
    /\ Len(hist) - (from + m) <= m
    /\ \A i \in (from + 1)..(from + m) : hist[i] = "next"
    /\ \A i \in (from + m + 1)..Len(hist) : hist[i] = "add"

\* C2: pre-registered consumers.  Whenever m next() calls are made on a
\* resolver with an empty backlog and nobody waiting, and j <= m add() calls
\* follow, the i-th of these next() calls is resolved with the i-th of these
\* added events (i <= j) and the others are still pending.
C2_PreRegistered ==
    \A from \in 0..Len(hist) : \A m \in 1..Len(hist) :
        LET q0 == trace[from + 1]
            j == Len(hist) - (from + m)
        IN  ( /\ PreRegisteredFrom(from, m)
              /\ q0.eventList = <<>>
              /\ q0.resolveList = <<>> )
            => /\ \A i \in 1..j :
                    resolver.promises[Len(q0.promises) + i]
                        = <<added[Len(added) - j + i]>>
               /\ \A i \in (j + 1)..m :
                    resolver.promises[Len(q0.promises) + i] = <<>>

\* next(), next(), add(a), add(b) has resolved the first next() with a and
\* the second with b.
C2_Witness ==
    /\ hist = <<"next", "next", "add", "add">>
    /\ added = <<JsString("a"), JsString("b")>>
    /\ resolver.promises = << <<JsString("a")>>, <<JsString("b")>> >>

\* C3: buffer exclusion.  The backlog of undelivered events and the list of
\* waiting consumers are never both non-empty.
C3_BufferExclusion ==
    ~ (Len(resolver.eventList) > 0 /\ Len(resolver.resolveList) > 0)

\* C4: next() with a non-empty backlog removes exactly the oldest element,
\* the promise it returns is resolved with that element, and no waiting
\* consumer is registered, whatever the element is.
C4_NextTakesOldest ==
    (Len(hist) > 0 /\ Last(hist) = "next" /\ Len(pre.eventList) > 0)
    => /\ resolver.eventList = Tail(pre.eventList)
       /\ Last(resolver.promises) = <<Head(pre.eventList)>>
       /\ resolver.resolveList = pre.resolveList

\* C5: add(e).  With a consumer waiting, exactly the oldest one is removed
\* from the wait list and completed with e, the other waiting consumers stay
\* pending and in place, the promises already resolved and the backlog are
\* unchanged; with nobody waiting, e is appended at the tail of the backlog
\* and nothing else changes.
C5_AddFrame ==
    (Len(hist) > 0 /\ Last(hist) = "add")
    => LET e == Last(added)
       IN  IF Len(pre.resolveList) > 0
           THEN /\ resolver.resolveList = Tail(pre.resolveList)
                /\ resolver.promises =
                      [pre.promises EXCEPT ![Head(pre.resolveList)] = <<e>>]
                /\ pre.promises[Head(pre.resolveList)] = <<>>
                /\ resolver.eventList = pre.eventList
           ELSE /\ resolver.eventList = Append(pre.eventList, e)
                /\ resolver.resolveList = pre.resolveList
                /\ resolver.promises = pre.promises

\* add(e) has served the older of two waiting consumers.
C5_Witness ==
    /\ Len(hist) > 0
    /\ Last(hist) = "add"
    /\ Len(pre.resolveList) = 2
    /\ resolver.promises[Head(pre.resolveList)] = <<Last(added)>>
    /\ Len(resolver.resolveList) = 1

----------------------------------------------------------------------------
(* Telnet codes (enum Command).                                            *)

SE == 240
SB == 250
DO == 253
IAC == 255
ECHO == 1

----------------------------------------------------------------------------
(* The events of a TelnetConnection and its queue.                         *)

CommandEvent(telnetCommand) ==
    [t |-> "object", type |-> "command", command |-> telnetCommand]

DataEvent(text) == [t |-> "object", type |-> "data", data |-> text]

\* Buffer.toString('utf8'): the text, as a sequence of code points.  A byte
\* below 128 is its own code point; a byte from 128 up that starts no
\* well-formed UTF-8 sequence decodes to U+FFFD (65533).  No byte of the
\* chunks of this model is a continuation byte (128..191), so no multi-byte
\* sequence is well formed and the decoding is byte by byte.
BufferToString(bytes) ==
    [i \in 1..Len(bytes) |-> IF bytes[i] < 128 THEN bytes[i] ELSE 65533]

\* AsyncQueue.add of @herrevilkitten/async-queue, the queue of index.ts:
\* the event goes to the oldest waiting consumer, or to the backlog.
AsyncQueue_add(q, event) ==
    IF Len(q.resolveList) > 0
    THEN [q EXCEPT !.resolveList = Tail(@),
                   !.promises[Head(q.resolveList)] = <<event>>]
    ELSE [q EXCEPT !.eventList = Append(@, event)]

----------------------------------------------------------------------------
(* TelnetConnection of src/src/index.ts: handleTelnetCommand and the       *)
(* "data" handler.  Positions are the code's, counted from 0: data[p] of   *)
(* the code is data[p + 1] here, and it is undefined when p >= Len(data).  *)

\* data[position] === code
Is(chunk, position, code) ==
    position < Len(chunk) /\ chunk[position + 1] = code

\* A mutant of subnegotiation: the loop stops before SE without pushing it.
RECURSIVE subnegotiation_excludesSE(_, _, _)
subnegotiation_excludesSE(chunk, position, telnetCommand) ==
    IF position < Len(chunk)
    THEN LET pushed == Append(telnetCommand, chunk[position + 1])
         IN  IF Is(chunk, position + 1, SE)
             THEN [command |-> pushed, position |-> position + 1]
             ELSE subnegotiation_excludesSE(chunk, position + 1, pushed)
    ELSE [command |-> telnetCommand, position |-> position]

\* A mutant of subnegotiation: only a byte 240 that follows a byte 255 ends
\* the command.
RECURSIVE subnegotiation_untilIacSe(_, _, _)
subnegotiation_untilIacSe(chunk, position, telnetCommand) ==
    IF position < Len(chunk)
    THEN LET pushed == Append(telnetCommand, chunk[position + 1])
         IN  IF Is(chunk, position + 1, SE) /\ chunk[position + 1] = IAC
             THEN [command |-> Append(pushed, SE), position |-> position + 1]
             ELSE subnegotiation_untilIacSe(chunk, position + 1, pushed)
    ELSE [command |-> telnetCommand, position |-> position]

\* A mutant of subnegotiation: a byte 255 ends the command before it, and
\* is left to the scan.
RECURSIVE subnegotiation_stopsAtIac(_, _, _)
subnegotiation_stopsAtIac(chunk, position, telnetCommand) ==
    IF position < Len(chunk)
    THEN LET pushed == Append(telnetCommand, chunk[position + 1])
         IN  IF Is(chunk, position + 1, SE)
             THEN [command |-> Append(pushed, SE), position |-> position + 1]
             ELSE IF Is(chunk, position + 1, IAC)
             THEN [command |-> pushed, position |-> position]
             ELSE subnegotiation_stopsAtIac(chunk, position + 1, pushed)
    ELSE [command |-> telnetCommand, position |-> position]

\* the while loop of the subnegotiation branch
RECURSIVE subnegotiation(_, _, _)
subnegotiation(chunk, position, telnetCommand) ==
    IF position < Len(chunk)
    THEN LET pushed == Append(telnetCommand, chunk[position + 1])
         IN  IF Is(chunk, position + 1, SE)
             THEN [command |-> Append(pushed, SE), position |-> position + 1]
             ELSE subnegotiation(chunk, position + 1, pushed)
    ELSE [command |-> telnetCommand, position |-> position]

\* A mutant of simpleCommand: the second push advances the position too.
simpleCommand_advancesTwice(chunk, position) ==
    LET has1 == position < Len(chunk)
        c1 == IF has1 THEN <<IAC, chunk[position + 1]>> ELSE <<IAC>>
        p1 == IF has1 THEN position + 1 ELSE position
        has2 == p1 < Len(chunk)
        c2 == IF has2 THEN Append(c1, chunk[p1 + 1]) ELSE c1
        p2 == IF has2 THEN p1 + 1 ELSE p1
    IN  [command |-> c2, position |-> p2]

\* A mutant of simpleCommand: the second push is not guarded by
\* position < data.length, and the element read past the end is pushed as 0.
simpleCommand_unguarded(chunk, position) ==
    LET has1 == position < Len(chunk)
        c1 == IF has1 THEN <<IAC, chunk[position + 1]>> ELSE <<IAC>>
        p1 == IF has1 THEN position + 1 ELSE position
        has2 == p1 < Len(chunk)
        c2 == Append(c1, IF has2 THEN chunk[p1 + 1] ELSE 0)
    IN  [command |-> c2, position |-> p1]

\* the two pushes of a simple command: only the first advances the position
simpleCommand(chunk, position) ==
    LET has1 == position < Len(chunk)
        c1 == IF has1 THEN <<IAC, chunk[position + 1]>> ELSE <<IAC>>
        p1 == IF has1 THEN position + 1 ELSE position
        has2 == p1 < Len(chunk)
        c2 == IF has2 THEN Append(c1, chunk[p1 + 1]) ELSE c1
    IN  [command |-> c2, position |-> p1]

\* the command and the new cursor position, before the event is added
telnetCommandAt(chunk, position) ==
    IF Is(chunk, position + 1, SB)
    THEN subnegotiation(chunk, position + 1, <<IAC>>)
    ELSE simpleCommand(chunk, position + 1)

\* A mutant of handleTelnetCommand: a command cut by the end of the chunk
\* after its IAC is held back instead of being added.
handleTelnetCommand_holdsTruncated(q, chunk, position) ==
    LET found == telnetCommandAt(chunk, position)
    IN  [resolver |-> IF found.command = <<IAC>> THEN q
                      ELSE AsyncQueue_add(q, CommandEvent(found.command)),
         position |-> found.position]

\* A mutant of handleTelnetCommand: the Command event is added twice.
handleTelnetCommand_addsTwice(q, chunk, position) ==
    LET found == telnetCommandAt(chunk, position)
        once == AsyncQueue_add(q, CommandEvent(found.command))
    IN  [resolver |-> AsyncQueue_add(once, CommandEvent(found.command)),
         position |-> found.position]

handleTelnetCommand(q, chunk, position) ==
    LET found == telnetCommandAt(chunk, position)
    IN  [resolver |-> AsyncQueue_add(q, CommandEvent(found.command)),
         position |-> found.position]

\* A mutant of scan: buffer[copied] is written without copied++.
RECURSIVE scan_noCopiedIncrement(_, _, _, _)
scan_noCopiedIncrement(q, chunk, cursor, copied) ==
    IF cursor < Len(chunk)
    THEN IF chunk[cursor + 1] = IAC
         THEN LET r == handleTelnetCommand(q, chunk, cursor)
              IN  scan_noCopiedIncrement(r.resolver, chunk, r.position + 1, copied)
         ELSE scan_noCopiedIncrement(q, chunk, cursor + 1, copied)
    ELSE [resolver |-> q, buffer |-> copied]

\* A mutant of scan: the loop resumes at the position handleTelnetCommand
\* returns, not after it.
RECURSIVE scan_resumesAtPosition(_, _, _, _)
scan_resumesAtPosition(q, chunk, cursor, copied) ==
    IF cursor < Len(chunk)
    THEN IF chunk[cursor + 1] = IAC
         THEN LET r == handleTelnetCommand(q, chunk, cursor)
              IN  scan_resumesAtPosition(r.resolver, chunk, r.position, copied)
         ELSE scan_resumesAtPosition(q, chunk, cursor + 1,
                                     Append(copied, chunk[cursor + 1]))
    ELSE [resolver |-> q, buffer |-> copied]

\* the for loop of the "data" handler, from cursor on
RECURSIVE scan(_, _, _, _)
scan(q, chunk, cursor, copied) ==
    IF cursor < Len(chunk)
    THEN IF chunk[cursor + 1] = IAC
         THEN LET r == handleTelnetCommand(q, chunk, cursor)
              IN  scan(r.resolver, chunk, r.position + 1, copied)
         ELSE scan(q, chunk, cursor + 1, Append(copied, chunk[cursor + 1]))
    ELSE [resolver |-> q, buffer |-> copied]

\* A mutant of dataHandler: the Data event is added only when copied > 0.
dataHandler_skipsEmpty(q, chunk) ==
    LET r == scan(q, chunk, 0, <<>>)
    IN  [resolver |-> IF r.buffer = <<>> THEN r.resolver
                      ELSE AsyncQueue_add(r.resolver,
                                          DataEvent(BufferToString(r.buffer))),
         buffer |-> r.buffer]

\* socket.on('data', ...)
dataHandler(q, chunk) ==
    LET r == scan(q, chunk, 0, <<>>)
    IN  [resolver |-> AsyncQueue_add(r.resolver, DataEvent(BufferToString(r.buffer))),
         buffer |-> r.buffer]

----------------------------------------------------------------------------
(* The specification of the framer of index.ts: the "data" handler is      *)
(* applied to a chunk drawn from Chunks.                                   *)

Bytes == {ECHO, SE, SB, IAC}

\* "hello" IAC DO ECHO "world"
HelloWorld == <<104, 101, 108, 108, 111, IAC, DO, ECHO, 119, 111, 114, 108, 100>>

Chunks == UNION {[1..n -> Bytes] : n \in 0..MaxChunkLen} \cup {HelloWorld}

FramerInit ==
    /\ resolver = NewResolver
    /\ added = <<>>
    /\ hist = <<>>
    /\ trace = <<NewResolver>>
    /\ data \in Chunks
    /\ pc = "idle"
    /\ connection = NewResolver
    /\ buffer = <<>>
    /\ NewConnection
    /\ NewServer

OnData ==
    /\ pc = "idle"
    /\ LET r == dataHandler(connection, data)
       IN  /\ connection' = r.resolver
           /\ buffer' = r.buffer
    /\ pc' = "index.ts"
    /\ UNCHANGED <<data, queueVars, connVars, serverVars>>

FramerNext == OnData

SpecFramer == FramerInit /\ [][FramerNext]_vars

\* the events the handler has added to the queue, in the order of the adds
Enqueued == connection.eventList

----------------------------------------------------------------------------
(* TelnetConnection of src/src/connection.ts, the older class that the     *)
(* tests of connection.test.ts import: its queue is an EventResolver, its  *)
(* subnegotiation loop stops before SE and both pushes of a simple command *)
(* advance the position.                                                   *)

RECURSIVE connectionTs_subnegotiation(_, _, _)
connectionTs_subnegotiation(chunk, position, telnetCommand) ==
    IF position < Len(chunk)
    THEN LET pushed == Append(telnetCommand, chunk[position + 1])
         IN  IF Is(chunk, position + 1, SE)
             THEN [command |-> pushed, position |-> position + 1]
             ELSE connectionTs_subnegotiation(chunk, position + 1, pushed)
    ELSE [command |-> telnetCommand, position |-> position]

connectionTs_simpleCommand(chunk, position) ==
    LET has1 == position < Len(chunk)
        c1 == IF has1 THEN <<IAC, chunk[position + 1]>> ELSE <<IAC>>
        p1 == IF has1 THEN position + 1 ELSE position
        has2 == p1 < Len(chunk)
        c2 == IF has2 THEN Append(c1, chunk[p1 + 1]) ELSE c1
        p2 == IF has2 THEN p1 + 1 ELSE p1
    IN  [command |-> c2, position |-> p2]

connectionTs_handleTelnetCommand(q, chunk, position) ==
    LET found == IF Is(chunk, position + 1, SB)
                 THEN connectionTs_subnegotiation(chunk, position + 1, <<IAC>>)
                 ELSE connectionTs_simpleCommand(chunk, position + 1)
    IN  [resolver |-> add(q, CommandEvent(found.command)),
         position |-> found.position]

RECURSIVE connectionTs_scan(_, _, _, _)
connectionTs_scan(q, chunk, cursor, copied) ==
    IF cursor < Len(chunk)
    THEN IF chunk[cursor + 1] = IAC
         THEN LET r == connectionTs_handleTelnetCommand(q, chunk, cursor)
              IN  connectionTs_scan(r.resolver, chunk, r.position + 1, copied)
         ELSE connectionTs_scan(q, chunk, cursor + 1,
                                Append(copied, chunk[cursor + 1]))
    ELSE [resolver |-> q, buffer |-> copied]

connectionTs_dataHandler(q, chunk) ==
    LET r == connectionTs_scan(q, chunk, 0, <<>>)
    IN  [resolver |-> add(r.resolver, DataEvent(BufferToString(r.buffer))),
         buffer |-> r.buffer]

ConnectionTsOnData ==
    /\ pc = "idle"
    /\ LET r == connectionTs_dataHandler(connection, data)
       IN  /\ connection' = r.resolver
           /\ buffer' = r.buffer
    /\ pc' = "connection.ts"
    /\ UNCHANGED <<data, queueVars, connVars, serverVars>>

ConnectionTsNext == ConnectionTsOnData

SpecConnectionTs == FramerInit /\ [][ConnectionTsNext]_vars

----------------------------------------------------------------------------
(* Properties of the framer.                                               *)

\* the handler of either file has run
Handled == pc # "idle"

NoIAC(bytes) == \A i \in 1..Len(bytes) : bytes[i] # IAC

\* The UTF-8 text of a byte string, for byte strings without continuation
\* bytes: ASCII bytes are themselves, every other byte is ill-formed and
\* reads as U+FFFD.
Utf8Text(bytes) ==
    [i \in 1..Len(bytes) |-> IF bytes[i] < 128 THEN bytes[i] ELSE 65533]

\* The UTF-8 bytes of a text whose code points are ASCII or U+FFFD.
RECURSIVE Utf8Bytes(_)
Utf8Bytes(text) ==
    IF text = <<>> THEN <<>>
    ELSE (IF Head(text) < 128 THEN <<Head(text)>> ELSE <<239, 191, 189>>)
         \o Utf8Bytes(Tail(text))

\* the commands enqueued, in order, and the Data events enqueued
CommandsOf(events) ==
    LET cmds == SelectSeq(events, LAMBDA e : e.type = "command")
    IN  [i \in 1..Len(cmds) |-> cmds[i].command]

DataOf(events) ==
    LET ds == SelectSeq(events, LAMBDA e : e.type = "data")
    IN  [i \in 1..Len(ds) |-> ds[i].data]

IsPrefix(p, s) == Len(p) <= Len(s) /\ SubSeq(s, 1, Len(p)) = p

\* Covers(chunk, cmds, payload): read from left to right, the chunk is made
\* of the bytes of payload, in order, none of them 255, and of the commands
\* cmds, in order, each a run of consecutive bytes of the chunk that starts
\* at a byte 255; every byte of the chunk is in exactly one of them.
RECURSIVE Covers(_, _, _)
Covers(chunk, cmds, payload) ==
    IF chunk = <<>>
    THEN cmds = <<>> /\ payload = <<>>
    ELSE IF Head(chunk) = IAC
         THEN /\ cmds # <<>>
              /\ Head(cmds) # <<>>
              /\ IsPrefix(Head(cmds), chunk)
              /\ Covers(SubSeq(chunk, Len(Head(cmds)) + 1, Len(chunk)),
                        Tail(cmds), payload)
         ELSE /\ payload # <<>>
              /\ Head(payload) = Head(chunk)
              /\ Covers(Tail(chunk), cmds, Tail(payload))

\* C6: clean split.  For a chunk P1 ++ [IAC, c, o] ++ P2 with no 255 in P1
\* and P2 and c # SB, the handler enqueues the Command event [IAC, c, o] and
\* then one Data event whose text is that of P1 ++ P2, no byte of P2 lost.
C6_CleanSplit ==
    Handled =>
        \A i \in 1..(Len(data) - 2) :
            LET P1 == SubSeq(data, 1, i - 1)
                P2 == SubSeq(data, i + 3, Len(data))
            IN  (data[i] = IAC /\ data[i + 1] # SB /\ NoIAC(P1) /\ NoIAC(P2))
                => Enqueued = << CommandEvent(<<IAC, data[i + 1], data[i + 2]>>),
                                 DataEvent(Utf8Text(P1 \o P2)) >>

\* C7 as amended: no commands.  For a chunk without byte 255 the handler
\* enqueues exactly one event, a Data event whose text is the UTF-8 decoding
\* of the whole chunk, and no Command event; the text holds the bytes of the
\* chunk themselves when the chunk is ASCII.
C7_NoCommands ==
    (pc = "index.ts" /\ NoIAC(data))
    => /\ Enqueued = <<DataEvent(Utf8Text(data))>>
       /\ (\A i \in 1..Len(data) : data[i] < 128)
              => Utf8Bytes(Enqueued[1].data) = data

\* a chunk without 255 that is not ASCII has been handled
C7_Witness ==
    /\ pc = "index.ts"
    /\ data = <<ECHO, SE, SB>>
    /\ Enqueued = <<DataEvent(<<1, 65533, 65533>>)>>

\* C7 as claimed: for a chunk without byte 255 there is exactly one Data
\* event, its payload equals the whole chunk, and there is no Command event.
C7_PayloadEqualsChunk ==
    (pc = "index.ts" /\ NoIAC(data))
    => /\ Len(Enqueued) = 1
       /\ Enqueued[1].type = "data"
       /\ Utf8Bytes(Enqueued[1].data) = data

\* the first index from `from` on at which the chunk holds `code`, or 0
RECURSIVE IndexOf(_, _, _)
IndexOf(chunk, code, from) ==
    IF from > Len(chunk) THEN 0
    ELSE IF chunk[from] = code THEN from
    ELSE IndexOf(chunk, code, from + 1)

\* the first index from `from` on at which the chunk holds IAC SE, or 0
RECURSIVE IndexOfIacSe(_, _)
IndexOfIacSe(chunk, from) ==
    IF from + 1 > Len(chunk) THEN 0
    ELSE IF chunk[from] = IAC /\ chunk[from + 1] = SE THEN from
    ELSE IndexOfIacSe(chunk, from + 1)

\* C8 as amended: subnegotiation.  When the first 255 of a chunk is followed
\* by SB and a byte 240 occurs after that SB, the first Command event runs
\* from that 255 through the first byte 240 after SB, inclusive, whether or
\* not that 240 is preceded by 255; the bytes after it are framed as bytes
\* outside that command (Covers), and nothing else is a command or payload.
C8_Subnegotiation ==
    pc = "index.ts" =>
        LET i == IndexOf(data, IAC, 1)
            j == IF i = 0 THEN 0 ELSE IndexOf(data, SE, i + 2)
        IN  (i > 0 /\ i < Len(data) /\ data[i + 1] = SB /\ j > 0)
            => /\ Len(CommandsOf(Enqueued)) >= 1
               /\ CommandsOf(Enqueued)[1] = SubSeq(data, i, j)
               /\ Covers(data, CommandsOf(Enqueued), buffer)

\* IAC SB ECHO IAC SE followed by one more byte has been handled
C8_Witness ==
    /\ pc = "index.ts"
    /\ data = <<IAC, SB, ECHO, IAC, SE, ECHO>>
    /\ Enqueued = << CommandEvent(<<IAC, SB, ECHO, IAC, SE>>),
                     DataEvent(<<1>>) >>

\* C8 as claimed: for IAC SB <opt> ... IAC SE at the first 255 of a chunk,
\* <opt> not being 240, the first Command event runs from that 255 through
\* the SE of the terminating IAC SE, inclusive.
C8_ThroughIacSe ==
    pc = "index.ts" =>
        LET i == IndexOf(data, IAC, 1)
            j == IF i = 0 THEN 0 ELSE IndexOfIacSe(data, i + 3)
        IN  (i > 0 /\ i + 2 <= Len(data) /\ data[i + 1] = SB
                   /\ data[i + 2] # SE /\ j > 0)
            => /\ Len(CommandsOf(Enqueued)) >= 1
               /\ CommandsOf(Enqueued)[1] = SubSeq(data, i, j + 1)

\* C9 as amended: output contract.  The handler enqueues the commands and
\* then exactly one Data event; the commands and the handler's payload bytes
\* cover the chunk (every byte of the chunk is in exactly one command or is
\* a payload byte, in stream order; every command starts with 255, at the
\* first 255 that is outside the commands before it); and the text of the
\* Data event is the UTF-8 decoding of the payload bytes.
C9_OutputContract ==
    pc = "index.ts" =>
        /\ Covers(data, CommandsOf(Enqueued), buffer)
        /\ \A k \in 1..Len(CommandsOf(Enqueued)) : CommandsOf(Enqueued)[k][1] = IAC
        /\ DataOf(Enqueued) = <<Utf8Text(buffer)>>
        /\ Enqueued[Len(Enqueued)].type = "data"

\* a chunk with payload, a simple command, a truncated one and a byte that
\* is not ASCII has been handled
C9_Witness ==
    /\ pc = "index.ts"
    /\ data = <<SE, IAC, ECHO, ECHO, ECHO, IAC>>
    /\ Enqueued = << CommandEvent(<<IAC, ECHO, ECHO>>), CommandEvent(<<IAC>>),
                     DataEvent(<<65533, 1>>) >>

\* C9 as claimed: the payload of the Data event consists of exactly the
\* bytes of the chunk that are in no emitted command, in stream order.
C9_PayloadIsTheBytes ==
    pc = "index.ts" =>
        /\ Len(DataOf(Enqueued)) = 1
        /\ Covers(data, CommandsOf(Enqueued), Utf8Bytes(DataOf(Enqueued)[1]))
        /\ \A k \in 1..Len(CommandsOf(Enqueued)) : CommandsOf(Enqueued)[k][1] = IAC

\* the indexes in the chunk at which the commands cmds start, when the
\* commands cover the chunk from index `from` on
RECURSIVE CommandStarts(_, _, _)
CommandStarts(chunk, cmds, from) ==
    IF cmds = <<>> \/ from > Len(chunk) THEN <<>>
    ELSE IF chunk[from] = IAC
         THEN <<from>> \o CommandStarts(chunk, Tail(cmds), from + Len(Head(cmds)))
         ELSE CommandStarts(chunk, cmds, from + 1)

\* C10: simple command.  Every command that starts at a 255 outside a
\* command, whose next byte is not SB and that has at least two bytes after
\* the 255, is exactly the 255 and the two bytes that follow it, whatever
\* they are; as the commands and the payload cover the chunk, neither of the
\* two bytes is a payload byte or the start of another command.
C10_SimpleCommand ==
    pc = "index.ts" =>
        LET cmds == CommandsOf(Enqueued)
            starts == CommandStarts(data, cmds, 1)
        IN  /\ Covers(data, cmds, buffer)
            /\ Len(starts) = Len(cmds)
            /\ \A k \in 1..Len(cmds) :
                  (starts[k] + 2 <= Len(data) /\ data[starts[k] + 1] # SB)
                  => cmds[k] = <<IAC, data[starts[k] + 1], data[starts[k] + 2]>>

\* IAC IAC IAC ECHO has been handled: one command of three bytes 255
C10_Witness ==
    /\ pc = "index.ts"
    /\ data = <<ECHO, IAC, IAC, IAC, ECHO>>
    /\ Enqueued = <<CommandEvent(<<IAC, IAC, IAC>>), DataEvent(<<1, 1>>)>>

\* C11: per-chunk event shape.  One invocation of the handler enqueues zero
\* or more Command events followed by exactly one Data event: the Data event
\* is the last event enqueued and every event before it is a Command event.
C11_EventShape ==
    pc = "index.ts" =>
        /\ Len(Enqueued) >= 1
        /\ Enqueued[Len(Enqueued)].type = "data"
        /\ \A i \in 1..(Len(Enqueued) - 1) : Enqueued[i].type = "command"

\* a chunk with two commands and no payload byte has been handled
C11_Witness ==
    /\ pc = "index.ts"
    /\ data = <<IAC, SB, SE, IAC, ECHO, ECHO>>
    /\ Enqueued = << CommandEvent(<<IAC, SB, SE>>),
                     CommandEvent(<<IAC, ECHO, ECHO>>), DataEvent(<<>>) >>

\* C12: no empty Data events.  The handler never enqueues a Data event whose
\* payload is empty.
C12_NoEmptyData ==
    pc = "index.ts" =>
        \A i \in 1..Len(Enqueued) :
            Enqueued[i].type = "data" => Enqueued[i].data # <<>>

\* C13: truncated command.  A command that starts at the last byte of the
\* chunk is [255]; one that starts at the last byte but one, the last byte b
\* not being SB, is [255, b]; the commands are made of bytes of the chunk
\* only (Covers), and the scan ends with the Data event enqueued.
C13_Truncated ==
    pc = "index.ts" =>
        LET cmds == CommandsOf(Enqueued)
            starts == CommandStarts(data, cmds, 1)
            n == Len(data)
        IN  /\ Covers(data, cmds, buffer)
            /\ Len(starts) = Len(cmds)
            /\ \A k \in 1..Len(cmds) :
                  /\ starts[k] = n => cmds[k] = <<IAC>>
                  /\ (starts[k] = n - 1 /\ data[n] # SB)
                        => cmds[k] = <<IAC, data[n]>>
            /\ Enqueued[Len(Enqueued)] = DataEvent(Utf8Text(buffer))

\* a chunk whose last byte is 255 has been handled
C13_Witness ==
    /\ pc = "index.ts"
    /\ data = <<ECHO, IAC>>
    /\ Enqueued = <<CommandEvent(<<IAC>>), DataEvent(<<1>>)>>

----------------------------------------------------------------------------
(* TelnetConnection of src/src/index.ts: the lifecycle handlers, receive()  *)
(* and the send methods.  The queue of the connection is the variable       *)
(* connection; one consumer pulls from receive(), one sequence at a time.   *)

\* { type: 'end' }, the event of the "end" handler: it has no error field
EndEvent == [t |-> "object", type |-> "end"]

\* { type: 'end', error: hasError }, the event of the "close" handler
CloseEvent(hasError) == [t |-> "object", type |-> "end", error |-> hasError]

\* { type: 'error', error }
ErrorEvent(error) == [t |-> "object", type |-> "error", error |-> error]

\* the Error objects the socket reports
Errors == {[t |-> "object", message |-> "ECONNRESET"]}

\* AsyncQueue.next of @herrevilkitten/async-queue: the oldest event of the
\* backlog as a promise already resolved, or a new pending promise.
AsyncQueue_next(q) ==
    IF Len(q.eventList) > 0
    THEN [q EXCEPT !.eventList = Tail(@),
                   !.promises = Append(@, <<Head(q.eventList)>>)]
    ELSE [q EXCEPT !.resolveList = Append(@, Len(q.promises) + 1),
                   !.promises = Append(@, <<>>)]

\* socket.on('close', ...): the flag connected is not touched
closeHandler(q, hasError) == AsyncQueue_add(q, CloseEvent(hasError))

\* socket.on('error', ...)
errorHandler(q, error) == AsyncQueue_add(q, ErrorEvent(error))

\* A mutant of endHandler: connected is flipped instead of cleared.
endHandler_flips(conn) ==
    [resolver |-> AsyncQueue_add(conn.resolver, EndEvent),
     connected |-> ~conn.connected]

\* socket.on('end', ...): the event is added, then connected is cleared
endHandler(conn) ==
    [resolver |-> AsyncQueue_add(conn.resolver, EndEvent),
     connected |-> FALSE]

\* A mutant of send: the socket is written to whether it is writable or not.
send_unguarded(sock, d) == [sock EXCEPT !.written = Append(@, d)]

\* send(data): the socket is always there, so the guard is on writable alone
send(sock, d) ==
    IF ~sock.writable
    THEN sock
    ELSE [sock EXCEPT !.written = Append(@, d)]

\* TelnetConnection.EOL, "\r\n", as code units
EOL == <<13, 10>>

\* A mutant of sendln: the end of line is sent first.
sendln_eolFirst(sock, d) == send(send(sock, EOL), d)

\* sendln(data)
sendln(sock, d) == send(send(sock, d), EOL)

\* the strings handed to send() and sendln(): "hi"
Payloads == {<<104, 105>>}

\* the chunks the socket delivers to a connection: "a", and IAC ECHO ECHO
ConnChunks == {<<97>>, <<IAC, ECHO, ECHO>>}

\* the events the handlers have added to the queue q so far, in the order
\* of the adds: those that resolved a promise, then the backlog
Handed(q) ==
    LET resolved == SelectSeq(q.promises, LAMBDA p : p # <<>>)
    IN  [i \in 1..Len(resolved) |-> resolved[i][1]] \o q.eventList

\* an entry of the history of signals: the name of the signal and the
\* arguments the socket passed to the handler
Signal(name, args) == [signal |-> name, args |-> args]

OnClose(hasError) ==
    /\ Len(Handed(connection)) < MaxEvents
    /\ connection' = closeHandler(connection, hasError)
    /\ UNCHANGED <<connected, socket, gen, yielded, completed, calls, chunks>>
    /\ signals' = Append(signals, Signal("close", <<hasError>>))
    /\ UNCHANGED <<queueVars, data, pc, buffer, serverVars, array, receivers>>

OnError(error) ==
    /\ Len(Handed(connection)) < MaxEvents
    /\ connection' = errorHandler(connection, error)
    /\ UNCHANGED <<connected, socket, gen, yielded, completed, calls, chunks>>
    /\ signals' = Append(signals, Signal("error", <<error>>))
    /\ UNCHANGED <<queueVars, data, pc, buffer, serverVars, array, receivers>>

OnEnd ==
    /\ Len(Handed(connection)) < MaxEvents
    /\ LET r == endHandler([resolver |-> connection, connected |-> connected])
       IN  /\ connection' = r.resolver
           /\ connected' = r.connected
    /\ UNCHANGED <<socket, gen, yielded, completed, calls, chunks>>
    /\ signals' = Append(signals, Signal("end", <<>>))
    /\ UNCHANGED <<queueVars, data, pc, buffer, serverVars, array, receivers>>

\* socket.on('data', ...) of a live connection
OnChunk(chunk) ==
    /\ LET r == dataHandler(connection, chunk)
       IN  /\ Len(Handed(r.resolver)) <= MaxEvents
           /\ connection' = r.resolver
    /\ chunks' = Append(chunks, chunk)
    /\ UNCHANGED <<connected, socket, gen, yielded, completed, calls>>
    /\ signals' = Append(signals, Signal("data", <<chunk>>))
    /\ UNCHANGED <<queueVars, data, pc, buffer, serverVars, array, receivers>>

\* A mutant of Pull: the newest event of the backlog is taken, not the oldest.
Pull_takesNewest ==
    /\ gen = "suspended"
    /\ IF connected
       THEN /\ connection' =
                  IF Len(connection.eventList) > 0
                  THEN [connection EXCEPT
                           !.eventList = SubSeq(@, 1, Len(@) - 1),
                           !.promises = Append(@, <<Last(connection.eventList)>>)]
                  ELSE AsyncQueue_next(connection)
            /\ gen' = "awaiting"
            /\ UNCHANGED completed
       ELSE /\ gen' = "done"
            /\ completed' = completed + 1
            /\ UNCHANGED connection
    /\ UNCHANGED <<connected, socket, yielded, calls, chunks>>
    /\ UNCHANGED <<queueVars, data, pc, buffer, serverVars, signals, array, receivers>>

\* The consumer asks receive() for the next event: the generator runs from
\* its start, or from its yield, to the test of the while loop, and either
\* calls resolver.next() and awaits, or returns.
Pull ==
    /\ gen = "suspended"
    /\ IF connected
       THEN /\ connection' = AsyncQueue_next(connection)
            /\ gen' = "awaiting"
            /\ UNCHANGED completed
       ELSE /\ gen' = "done"
            /\ completed' = completed + 1
            /\ UNCHANGED connection
    /\ UNCHANGED <<connected, socket, yielded, calls, chunks>>
    /\ UNCHANGED <<queueVars, data, pc, buffer, serverVars, signals, array, receivers>>

\* The awaited promise, the last one made, is resolved: the generator
\* yields its value.
Resume ==
    /\ gen = "awaiting"
    /\ Last(connection.promises) # <<>>
    /\ yielded' = Append(yielded, Last(connection.promises)[1])
    /\ gen' = "suspended"
    /\ UNCHANGED <<connection, connected, socket, completed, calls, chunks>>
    /\ UNCHANGED <<queueVars, data, pc, buffer, serverVars, signals, array, receivers>>

\* The consumer calls receive() again after a sequence has completed.
Restart ==
    /\ gen = "done"
    /\ completed <= MaxReceives
    /\ gen' = "suspended"
    /\ UNCHANGED <<connection, connected, socket, yielded, completed, calls, chunks>>
    /\ UNCHANGED <<queueVars, data, pc, buffer, serverVars, signals, array, receivers>>

Send(d) ==
    /\ Len(calls) < MaxCalls
    /\ socket' = send(socket, d)
    /\ calls' = Append(calls, [op |-> "send", data |-> d])
    /\ UNCHANGED <<connection, connected, gen, yielded, completed, chunks>>
    /\ UNCHANGED <<queueVars, data, pc, buffer, serverVars, signals, array, receivers>>

Sendln(d) ==
    /\ Len(calls) < MaxCalls
    /\ socket' = sendln(socket, d)
    /\ calls' = Append(calls, [op |-> "sendln", data |-> d])
    /\ UNCHANGED <<connection, connected, gen, yielded, completed, chunks>>
    /\ UNCHANGED <<queueVars, data, pc, buffer, serverVars, signals, array, receivers>>

\* The socket stops being writable (it was ended or destroyed).
SocketNotWritable ==
    /\ socket.writable
    /\ socket' = [socket EXCEPT !.writable = FALSE]
    /\ UNCHANGED <<connection, connected, gen, yielded, completed, calls, chunks>>
    /\ UNCHANGED <<queueVars, data, pc, buffer, serverVars, signals, array, receivers>>

ConnectionInit ==
    /\ resolver = NewResolver
    /\ added = <<>>
    /\ hist = <<>>
    /\ trace = <<NewResolver>>
    /\ data = <<>>
    /\ pc = "idle"
    /\ connection = NewResolver
    /\ buffer = <<>>
    /\ NewConnection
    /\ NewServer

ConnectionNext ==
    \/ \E hasError \in BOOLEAN : OnClose(hasError)
    \/ \E error \in Errors : OnError(error)
    \/ OnEnd
    \/ \E chunk \in ConnChunks : OnChunk(chunk)
    \/ Pull
    \/ Resume
    \/ Restart
    \/ \E d \in Payloads : Send(d)
    \/ \E d \in Payloads : Sendln(d)
    \/ SocketNotWritable

SpecConnection == ConnectionInit /\ [][ConnectionNext]_vars

----------------------------------------------------------------------------
(* Properties of the connection lifecycle.                                 *)

\* the events handed to the queue of the connection so far
Queued == Handed(connection)

\* an End event, of the "end" handler or of the "close" handler
IsEnd(event) == event.type = "end"

\* C14: close lifecycle.  When the first signal of a connection is close
\* with hasError = true, the first event receive() yields is
\* { type: 'end', error: true }; and once that event has been yielded,
\* receive() yields nothing more, whatever is added to the queue later.
C14_CloseLifecycle ==
    /\ (Queued # <<>> /\ Queued[1] = CloseEvent(TRUE) /\ yielded # <<>>)
          => yielded[1] = CloseEvent(TRUE)
    /\ \A i \in 1..Len(yielded) :
          yielded[i] = CloseEvent(TRUE) => i = Len(yielded)

\* C15: the terminal event is observed.  A receive() sequence completes
\* only after an End event has been yielded to the consumer, and connected
\* is false only when an End event has been handed to the queue.
C15_TerminalObserved ==
    /\ completed > 0 => \E i \in 1..Len(yielded) : IsEnd(yielded[i])
    /\ ~connected => \E i \in 1..Len(Queued) : IsEnd(Queued[i])

\* C16: the Ending state drains the queue.  A receive() sequence completes
\* only in a state where connected is false and the backlog is empty, every
\* event handed to the queue before the End event of the end signal having
\* been yielded.
C16_EndingDrains ==
    [][completed' > completed =>
          /\ ~connected
          /\ connection.eventList = <<>>
          /\ \A i \in 1..Len(Queued) :
                (\E j \in (i + 1)..Len(Queued) : Queued[j] = EndEvent)
                   => (i <= Len(yielded) /\ yielded[i] = Queued[i])]_vars

\* C17: receive() terminates on connection end.  After a terminal signal,
\* the end signal or the close signal, connected is false, so that the
\* test of the while loop of receive() ends the sequence.
C17_TerminalClearsConnected ==
    (\E i \in 1..Len(Queued) : IsEnd(Queued[i])) => ~connected

C19_Send ==
    [][(calls' # calls /\ Last(calls').op = "send") =>
          /\ socket'.written =
                socket.written \o (IF socket.writable
                                   THEN <<Last(calls').data>> ELSE <<>>)
          /\ socket'.writable = socket.writable
          /\ UNCHANGED <<connection, connected, gen, yielded, completed>>]_vars

\* send was called twice, on the writable socket and then on the socket no
\* longer writable: one write
C19_Witness ==
    /\ calls = <<[op |-> "send", data |-> <<104, 105>>],
                 [op |-> "send", data |-> <<104, 105>>]>>
    /\ socket = [writable |-> FALSE, written |-> << <<104, 105>> >>,
                 ended |-> 0]

\* C20: sendln.  A call of sendln(text) on a writable socket appends two
\* writes, text and then "\r\n"; on a socket that is not writable it
\* appends none.
C20_Sendln ==
    [][(calls' # calls /\ Last(calls').op = "sendln") =>
          socket'.written =
             socket.written \o (IF socket.writable
                                THEN <<Last(calls').data, EOL>> ELSE <<>>)]_vars

\* sendln was called twice, on the writable socket and then on the socket
\* no longer writable: two writes
C20_Witness ==
    /\ calls = <<[op |-> "sendln", data |-> <<104, 105>>],
                 [op |-> "sendln", data |-> <<104, 105>>]>>
    /\ socket = [writable |-> FALSE, written |-> << <<104, 105>>, EOL >>,
                 ended |-> 0]

----------------------------------------------------------------------------
(* TelnetConnection of src/src/index.ts: sendCommand and disconnect, and    *)
(* the specification of the methods that use the socket: any sequence of    *)
(* calls of send, sendln, sendCommand and disconnect, the socket raising    *)
(* its end, close and error signals and turning non-writable at any time.   *)

\* Uint8Array.from(data): each number is stored modulo 256
Uint8ArrayFrom(codes) == [i \in 1..Len(codes) |-> codes[i] % 256]

\* A mutant of sendCommand: IAC is put in front whatever data[0] is.
sendCommand_alwaysUnshifts(sock, codes) ==
    send(sock, Uint8ArrayFrom(<<IAC>> \o codes))

\* the caller's array after the test and the unshift of sendCommand, which
\* change it in place: data[0] of an empty array is undefined, not IAC
unshiftIAC(codes) ==
    IF Len(codes) = 0 \/ codes[1] # IAC
    THEN <<IAC>> \o codes
    ELSE codes

\* sendCommand(data): the array as changed is converted and sent
sendCommand(sock, codes) ==
    send(sock, Uint8ArrayFrom(unshiftIAC(codes)))

\* A mutant of disconnect: the connection is marked as not connected too.
disconnect_clearsConnected(conn) ==
    [socket |-> [conn.socket EXCEPT !.ended = @ + 1], connected |-> FALSE]

\* disconnect(): socket.end(), and nothing else
disconnect(conn) ==
    [socket |-> [conn.socket EXCEPT !.ended = @ + 1],
     connected |-> conn.connected]

\* the arrays handed to sendCommand
CommandCodes ==
    {<<>>, <<IAC>>, <<DO, ECHO>>, <<IAC, DO, ECHO>>, <<ECHO, IAC>>}

\* A mutant of SendCommand: the bytes are sent from a copy, the caller's
\* array is left as it was.
SendCommand_copies(codes) ==
    /\ Len(calls) < MaxCalls
    /\ socket' = sendCommand(socket, codes)
    /\ calls' = Append(calls, [op |-> "sendCommand", data |-> codes])
    /\ UNCHANGED <<connection, connected, gen, yielded, completed, chunks>>
    /\ array' = <<codes>>
    /\ UNCHANGED <<queueVars, data, pc, buffer, serverVars, signals, receivers>>

\* sendCommand is called with a new array
SendCommand(codes) ==
    /\ Len(calls) < MaxCalls
    /\ socket' = sendCommand(socket, codes)
    /\ calls' = Append(calls, [op |-> "sendCommand", data |-> codes])
    /\ UNCHANGED <<connection, connected, gen, yielded, completed, chunks>>
    /\ array' = <<unshiftIAC(codes)>>
    /\ UNCHANGED <<queueVars, data, pc, buffer, serverVars, signals, receivers>>

\* sendCommand is called once more with the array object of the last call
SendCommandAgain ==
    /\ array # <<>>
    /\ SendCommand(array[1])

Disconnect ==
    /\ Len(calls) < MaxCalls
    /\ LET r == disconnect([socket |-> socket, connected |-> connected])
       IN  /\ socket' = r.socket
           /\ connected' = r.connected
    /\ calls' = Append(calls, [op |-> "disconnect", data |-> <<>>])
    /\ UNCHANGED <<connection, gen, yielded, completed, chunks>>
    /\ UNCHANGED <<queueVars, data, pc, buffer, serverVars, signals, array, receivers>>

ApiNext ==
    \/ \E d \in Payloads : Send(d)
    \/ \E d \in Payloads : Sendln(d)
    \/ \E codes \in CommandCodes : SendCommand(codes)
    \/ SendCommandAgain
    \/ Disconnect
    \/ SocketNotWritable
    \/ \E hasError \in BOOLEAN : OnClose(hasError)
    \/ \E error \in Errors : OnError(error)
    \/ OnEnd

SpecApi == ConnectionInit /\ [][ApiNext]_vars

\* C21: sendCommand.  A call of sendCommand(codes) on a writable socket
\* appends one write whose first byte is 255: codes itself when codes
\* starts with 255, and 255 followed by codes otherwise; [DO, ECHO] and
\* [IAC, DO, ECHO] are both written as [IAC, DO, ECHO].
C21_SendCommand ==
    [][(calls' # calls /\ Last(calls').op = "sendCommand" /\ socket.writable) =>
          LET codes == Last(calls').data
          IN  /\ Len(socket'.written) = Len(socket.written) + 1
              /\ SubSeq(socket'.written, 1, Len(socket.written)) = socket.written
              /\ LET bytes == Last(socket'.written)
                 IN  /\ bytes[1] = 255
                     /\ (codes # <<>> /\ codes[1] = 255) => bytes = codes
                     /\ (codes = <<>> \/ codes[1] # 255)
                           => bytes = <<255>> \o codes
                     /\ codes \in {<<DO, ECHO>>, <<IAC, DO, ECHO>>}
                           => bytes = <<255, 253, 1>>]_vars

\* sendCommand([DO, ECHO]) and sendCommand([IAC, DO, ECHO]) were called on
\* the writable socket: the same bytes twice
C21_Witness ==
    /\ calls = <<[op |-> "sendCommand", data |-> <<DO, ECHO>>],
                 [op |-> "sendCommand", data |-> <<IAC, DO, ECHO>>]>>
    /\ socket.written = << <<255, 253, 1>>, <<255, 253, 1>> >>

\* C22: disconnect.  A call of disconnect() calls socket.end() once and
\* writes nothing; it changes neither connected, nor the queue, nor the
\* receive() sequence; and a step that changes connected is not a call of
\* a method: it is a step of a socket handler, which adds an event.
C22_Disconnect ==
    [][/\ (calls' # calls /\ Last(calls').op = "disconnect") =>
             /\ socket' = [socket EXCEPT !.ended = @ + 1]
             /\ UNCHANGED <<connection, connected, gen, yielded, completed>>
       /\ connected' # connected =>
             (calls' = calls /\ Len(Queued') = Len(Queued) + 1)]_vars

\* disconnect() was called, and the end signal came afterwards
C22_Witness ==
    /\ calls = <<[op |-> "disconnect", data |-> <<>>]>>
    /\ socket.ended = 1
    /\ Queued = <<EndEvent>>
    /\ ~connected

\* C23: transport faults are not fatal to the sequence.  A step of the
\* error handler adds exactly one Error event, carrying the cause, and
\* leaves connected as it was; and when a receive() sequence completes,
\* every event that was handed to the queue after an Error event has been
\* yielded.
C23_ErrorNonFatal ==
    [][/\ (Len(Queued') > Len(Queued) /\ Last(Queued').type = "error") =>
             /\ Queued' = Append(Queued, Last(Queued'))
             /\ Last(Queued').error \in Errors
             /\ connected' = connected
       /\ completed' > completed =>
             \A i \in 1..Len(Queued) : \A j \in (i + 1)..Len(Queued) :
                Queued[i].type = "error"
                   => (j <= Len(yielded) /\ yielded[j] = Queued[j])]_vars

----------------------------------------------------------------------------
(* The specification of a stream of chunks: the pieces of one byte stream   *)
(* are delivered to the "data" handler of a connection, whole or cut in    *)
(* two at any place, while a consumer pulls from receive().                 *)

\* "a", IAC DO ECHO, "b"
Whole == <<97, IAC, DO, ECHO, 98>>

\* the stream, and the two pieces of each cut of it
StreamChunks ==
    {SubSeq(Whole, 1, k) : k \in 1..Len(Whole)}
        \cup {SubSeq(Whole, k, Len(Whole)) : k \in 2..Len(Whole)}

StreamNext ==
    \/ \E chunk \in StreamChunks : OnChunk(chunk)
    \/ Pull
    \/ Resume

SpecStream == ConnectionInit /\ [][StreamNext]_vars

\* the events the handler adds for one chunk, on a queue of its own
EventsOf(chunk) == dataHandler(NewResolver, chunk).resolver.eventList

\* the events of a sequence of chunks, chunk after chunk
RECURSIVE EventsOfChunks(_)
EventsOfChunks(chs) ==
    IF chs = <<>> THEN <<>>
    ELSE EventsOf(Head(chs)) \o EventsOfChunks(Tail(chs))

\* C24: cross-chunk ordering.  The events receive() has yielded are the
\* first events of the chunks delivered so far, in the order of the chunks
\* and, within a chunk, in the order in which the handler added them.
C24_EnqueueOrder ==
    LET expected == EventsOfChunks(chunks)
    IN  /\ Len(yielded) <= Len(expected)
        /\ yielded = SubSeq(expected, 1, Len(yielded))

\* a chunk with a command and a second chunk were delivered before the
\* consumer pulled, and the three events have been yielded
C24_Witness ==
    /\ chunks = << <<97, IAC>>, <<98>> >>
    /\ yielded = <<CommandEvent(<<IAC>>), DataEvent(<<97>>), DataEvent(<<98>>)>>

\* C30: framing keeps no state across calls.  The events handed to the
\* queue are those of each chunk taken alone; a stream cut inside its
\* command gives other events than the stream delivered whole, and cut
\* after the IAC it gives Command [IAC] and "a" for the first chunk and a
\* payload with DO, ECHO and "b" for the second.
C30_NoStateAcrossChunks ==
    /\ Queued = EventsOfChunks(chunks)
    /\ (Len(chunks) = 2 /\ chunks[1] \o chunks[2] = Whole
           /\ Len(chunks[1]) \in {2, 3})
          => Queued # EventsOf(Whole)
    /\ chunks = << <<97, IAC>>, <<DO, ECHO, 98>> >>
          => Queued = <<CommandEvent(<<IAC>>), DataEvent(<<97>>),
                        DataEvent(<<65533, 1, 98>>)>>

\* the stream was delivered cut after its IAC
C30_Witness ==
    /\ chunks = << <<97, IAC>>, <<DO, ECHO, 98>> >>
    /\ Len(Queued) = 3
    /\ EventsOf(Whole) = <<CommandEvent(<<IAC, DO, ECHO>>), DataEvent(<<97, 98>>)>>

----------------------------------------------------------------------------
(* AbstractTelnetServer of src/unnamed/part_003 (TelnetServer and           *)
(* TLSTelnetServer differ in the net.Server they create only).  The record  *)
(* server holds its resolver, its flag connected and the state net of its   *)
(* net.Server: "created", "binding" once listen was called on it,           *)
(* "listening", or "failed" when the bind failed.  One consumer pulls one   *)
(* listen() sequence; listenGen is the position of its generator: "new",    *)
(* "binding" (awaiting the promise of the bind), "bound" (that promise is   *)
(* resolved), "awaiting" (awaiting resolver.next()), "suspended" (at the    *)
(* yield) or "done".                                                        *)

\* this.server, the handle carried by the start event
ServerHandle == [t |-> "object", class |-> "Server"]

\* { type: 'start', server: this.server }
StartEvent == [t |-> "object", type |-> "start", server |-> ServerHandle]

\* new TelnetConnection(socket)
NewTelnetConnection(sock) == [t |-> "object", class |-> "TelnetConnection",
                              socket |-> sock]

\* { type: 'connect', connection: connection }
ConnectEvent(conn) == [t |-> "object", type |-> "connect", connection |-> conn]

\* { type: 'stop' }
StopEvent == [t |-> "object", type |-> "stop"]

\* A mutant of listeningCallback: the promise is resolved, no event is added.
listeningCallback_noStart(srv) == [srv EXCEPT !.net = "listening"]

\* the callback handed to this.server.listen: the net.Server is listening
listeningCallback(srv) ==
    [srv EXCEPT !.resolver = AsyncQueue_add(@, StartEvent),
                !.net = "listening"]

\* connectionHandler(socket)
connectionHandler(srv, sock) ==
    LET conn == NewTelnetConnection(sock)
    IN  [srv EXCEPT !.resolver = AsyncQueue_add(@, ConnectEvent(conn))]

\* A mutant of serverErrorHandler: the error stops the server as well.
serverErrorHandler_fatal(srv, error) ==
    [srv EXCEPT !.resolver = AsyncQueue_add(@, ErrorEvent(error)),
                !.connected = FALSE,
                !.net = IF @ = "binding" THEN "failed" ELSE @]

\* this.server.on('error', ...); an error of the bind leaves the net.Server
\* not listening
serverErrorHandler(srv, error) ==
    [srv EXCEPT !.resolver = AsyncQueue_add(@, ErrorEvent(error)),
                !.net = IF @ = "binding" THEN "failed" ELSE @]

\* A mutant of stop: the event is added, connected is left as it was.
stop_keepsConnected(srv) ==
    [srv EXCEPT !.resolver = AsyncQueue_add(@, StopEvent)]

\* stop(): connected is cleared first, then the event is added
stop(srv) ==
    [srv EXCEPT !.connected = FALSE,
                !.resolver = AsyncQueue_add(@, StopEvent)]

\* a call of the history: what was called, its argument, and the number of
\* events listen() had yielded when it was called
Call(op, arg) == [op |-> op, arg |-> arg, served |-> Len(served)]

\* the sockets accepted so far are numbered in acceptance order
Accepted == SelectSeq(log, LAMBDA c : c.op = "connection")

\* The consumer's first pull of listen(): the generator calls
\* this.server.listen and awaits the promise of the bind.
Listen ==
    /\ listenGen = "new"
    /\ server.net = "created"
    /\ server' = [server EXCEPT !.net = "binding"]
    /\ listenGen' = "binding"
    /\ UNCHANGED <<served, log>>
    /\ UNCHANGED <<queueVars, framerVars, connVars>>

OnListening ==
    /\ server.net = "binding"
    /\ Len(log) < MaxServerCalls
    /\ server' = listeningCallback(server)
    /\ listenGen' = "bound"
    /\ log' = Append(log, Call("listening", <<>>))
    /\ UNCHANGED served
    /\ UNCHANGED <<queueVars, framerVars, connVars>>

\* A mutant of OnConnection: the connect event is added to a queue the two
\* instances share, the one the connection's receive() reads.
OnConnection_sharedQueue ==
    /\ server.net = "listening"
    /\ Len(log) < MaxServerCalls
    /\ LET sock == Len(Accepted) + 1
       IN  /\ connection' =
                 AsyncQueue_add(connection, ConnectEvent(NewTelnetConnection(sock)))
           /\ log' = Append(log, Call("connection", sock))
    /\ UNCHANGED <<server, listenGen, served>>
    /\ UNCHANGED <<queueVars, data, pc, buffer, connVars>>

OnConnection ==
    /\ server.net = "listening"
    /\ Len(log) < MaxServerCalls
    /\ LET sock == Len(Accepted) + 1
       IN  /\ server' = connectionHandler(server, sock)
           /\ log' = Append(log, Call("connection", sock))
    /\ UNCHANGED <<listenGen, served>>
    /\ UNCHANGED <<queueVars, framerVars, connVars>>

OnServerError(error) ==
    /\ server.net \in {"binding", "listening"}
    /\ Len(log) < MaxServerCalls
    /\ server' = serverErrorHandler(server, error)
    /\ log' = Append(log, Call("error", error))
    /\ UNCHANGED <<listenGen, served>>
    /\ UNCHANGED <<queueVars, framerVars, connVars>>

Stop ==
    /\ Len(log) < MaxServerCalls
    /\ server' = stop(server)
    /\ log' = Append(log, Call("stop", <<>>))
    /\ UNCHANGED <<listenGen, served>>
    /\ UNCHANGED <<queueVars, framerVars, connVars>>

\* The generator of listen() reaches the test of its while loop, after the
\* bind or on the consumer's pull, and calls resolver.next() or returns.
ListenPull ==
    /\ listenGen \in {"bound", "suspended"}
    /\ IF server.connected
       THEN /\ server' = [server EXCEPT !.resolver = AsyncQueue_next(@)]
            /\ listenGen' = "awaiting"
       ELSE /\ listenGen' = "done"
            /\ UNCHANGED server
    /\ UNCHANGED <<served, log>>
    /\ UNCHANGED <<queueVars, framerVars, connVars>>

\* The awaited promise, the last one made, is resolved: listen() yields.
ListenResume ==
    /\ listenGen = "awaiting"
    /\ Last(server.resolver.promises) # <<>>
    /\ served' = Append(served, Last(server.resolver.promises)[1])
    /\ listenGen' = "suspended"
    /\ UNCHANGED <<server, log>>
    /\ UNCHANGED <<queueVars, framerVars, connVars>>

ServerInit == ConnectionInit

ServerNext ==
    \/ Listen
    \/ OnListening
    \/ OnConnection
    \/ \E error \in Errors : OnServerError(error)
    \/ Stop
    \/ ListenPull
    \/ ListenResume

SpecServer == ServerInit /\ [][ServerNext]_vars

----------------------------------------------------------------------------
(* Properties of the server.                                               *)

\* the events handed to the queue of the server so far
ServerQueued == Handed(server.resolver)

\* the event a callback or a stop() call is to add
EventOfCall(c) ==
    CASE c.op = "listening" -> StartEvent
      [] c.op = "connection" -> ConnectEvent(NewTelnetConnection(c.arg))
      [] c.op = "error" -> ErrorEvent(c.arg)
      [] c.op = "stop" -> StopEvent

\* the events of the first n calls of the history
EventsOfCalls(n) == [i \in 1..n |-> EventOfCall(log[i])]

\* log[k] is a call of stop()
IsStop(k) == log[k].op = "stop"

\* log[k] is the first call of stop(), made on a server that was listening
IsStopOfListening(k) ==
    /\ IsStop(k)
    /\ \A j \in 1..(k - 1) : ~IsStop(j)
    /\ \E j \in 1..(k - 1) : log[j].op = "listening"

\* C25: start of the acceptor.  listen() has yielded nothing while the
\* net.Server is not listening, and the first event it yields is the start
\* event with the handle of the net.Server.
C25_StartFirst ==
    /\ server.net # "listening" => served = <<>>
    /\ served # <<>> => served[1] = StartEvent

\* the start event and then a connect event have been yielded
C25_Witness ==
    served = <<StartEvent, ConnectEvent(NewTelnetConnection(1))>>

\* C26: stop of the acceptor.  After stop() was called on a listening
\* server, listen() yields one more event and no more, that event is the
\* stop event, and the sequence does not complete before it was yielded.
C26_StopThenDone ==
    \A k \in 1..Len(log) :
        IsStopOfListening(k) =>
            /\ Len(served) <= log[k].served + 1
            /\ Len(served) = log[k].served + 1 => Last(served) = StopEvent
            /\ listenGen = "done" => Len(served) = log[k].served + 1

\* C27: no connect after stop.  No connect event is among the events
\* listen() yields after a call of stop().
C27_NoConnectAfterStop ==
    \A k \in 1..Len(log) :
        IsStop(k) =>
            \A i \in (log[k].served + 1)..Len(served) :
                served[i].type # "connect"

\* C28: stop ordering.  A call of stop() clears connected and hands the
\* stop event to the queue of the server, behind the events handed to it
\* before; and when listen() yields the stop event, it has yielded before
\* it the events of all the calls made before that call of stop().
C28_StopOrdering ==
    [][/\ (log' # log /\ Last(log').op = "stop") =>
             /\ ~server'.connected
             /\ ServerQueued' = Append(ServerQueued, StopEvent)
       /\ (served' # served /\ Last(served') = StopEvent) =>
             \E k \in 1..Len(log) :
                /\ IsStop(k)
                /\ SubSeq(served', 1, Len(served') - 1) = EventsOfCalls(k - 1)]_vars

\* the stop event has been yielded, after the start event and the connect
\* event of a socket accepted before the call of stop()
C28_Witness ==
    served = <<StartEvent, ConnectEvent(NewTelnetConnection(1)), StopEvent>>

\* C29: events of the acceptor.  The queue was handed one event per call,
\* in call order: for each accepted socket a connect event with a
\* TelnetConnection of that socket, for each error of the net.Server an
\* error event; listen() yields them in that order; and an error does not
\* end the sequence: connected is false, and the sequence completes, only
\* after a call of stop().
C29_AcceptorEvents ==
    /\ ServerQueued = EventsOfCalls(Len(log))
    /\ Len(served) <= Len(ServerQueued)
    /\ served = SubSeq(ServerQueued, 1, Len(served))
    /\ server.connected = ~(\E k \in 1..Len(log) : IsStop(k))
    /\ listenGen = "done" => \E k \in 1..Len(log) : IsStop(k)

\* two sockets were accepted, an error of the net.Server between them, and
\* listen() has yielded the four events
C29_Witness ==
    served = <<StartEvent, ConnectEvent(NewTelnetConnection(1)),
               ErrorEvent([t |-> "object", message |-> "ECONNRESET"]),
               ConnectEvent(NewTelnetConnection(2))>>

----------------------------------------------------------------------------
(* Further properties of the framer.                                       *)

\* the sum of the lengths of the sequences of seqs
RECURSIVE SumLen(_)
SumLen(seqs) == IF seqs = <<>> THEN 0 ELSE Len(Head(seqs)) + SumLen(Tail(seqs))

\* C33: end of a subnegotiation.  Every command that starts with IAC SB and
\* has a byte 240 somewhere after the SB runs through the first such byte,
\* preceded by 255 or not; the bytes after it are framed as bytes outside
\* that command, payload bytes or later commands.
C33_FirstSE ==
    pc = "index.ts" =>
        LET cmds == CommandsOf(Enqueued)
            starts == CommandStarts(data, cmds, 1)
        IN  /\ Len(starts) = Len(cmds)
            /\ \A k \in 1..Len(cmds) :
                  LET s == starts[k]
                      j == IndexOf(data, SE, s + 2)
                  IN  (s < Len(data) /\ data[s + 1] = SB /\ j > 0)
                      => /\ cmds[k] = SubSeq(data, s, j)
                         /\ Covers(SubSeq(data, j + 1, Len(data)),
                                   SubSeq(cmds, k + 1, Len(cmds)),
                                   SubSeq(buffer,
                                          Len(buffer) - (Len(data) - j
                                             - SumLen(SubSeq(cmds, k + 1, Len(cmds)))) + 1,
                                          Len(buffer)))

\* a subnegotiation whose parameter byte 240 is not preceded by 255 has
\* been handled: the command ends there, the rest is payload
C33_Witness ==
    /\ pc = "index.ts"
    /\ data = <<IAC, SB, ECHO, SE, ECHO, SE>>
    /\ Enqueued = << CommandEvent(<<IAC, SB, ECHO, SE>>),
                     DataEvent(<<1, 65533>>) >>

\* C36: byte conservation.  The commands and the payload bytes of the
\* handler cover the chunk: every byte of the chunk is a payload byte or a
\* byte of exactly one command, in scan order, so that the lengths add up
\* to the length of the chunk.
C36_ByteConservation ==
    Handled =>
        /\ Covers(data, CommandsOf(Enqueued), buffer)
        /\ Len(buffer) + SumLen(CommandsOf(Enqueued)) = Len(data)

\* C37: unterminated subnegotiation.  A command that starts with IAC SB and
\* has no byte 240 after the SB is the last command and runs to the end of
\* the chunk: no later byte is a payload byte or starts a command, and the
\* position handleTelnetCommand returns is the length of the chunk.
C37_Unterminated ==
    pc = "index.ts" =>
        LET cmds == CommandsOf(Enqueued)
            starts == CommandStarts(data, cmds, 1)
        IN  /\ Len(starts) = Len(cmds)
            /\ Covers(data, cmds, buffer)
            /\ \A k \in 1..Len(cmds) :
                  LET s == starts[k]
                  IN  (s < Len(data) /\ data[s + 1] = SB
                          /\ IndexOf(data, SE, s + 2) = 0)
                      => /\ k = Len(cmds)
                         /\ cmds[k] = SubSeq(data, s, Len(data))
                         /\ handleTelnetCommand(NewResolver, data, s - 1).position
                               = Len(data)

\* a subnegotiation without 240, with a byte 255 among its bytes, has been
\* handled: one command, the whole chunk
C37_Witness ==
    /\ pc = "index.ts"
    /\ data = <<IAC, SB, ECHO, IAC, ECHO, SB>>
    /\ Enqueued = << CommandEvent(<<IAC, SB, ECHO, IAC, ECHO, SB>>),
                     DataEvent(<<>>) >>

\* C38: the scan terminates.  handleTelnetCommand returns a position that
\* is not smaller than the one it was given and not beyond the chunk; each
\* iteration of the loop copies one byte or adds one Command event, and the
\* handler ends after at most length(chunk) of them, with at most
\* length(chunk) Command events.
C38_ScanTerminates ==
    pc = "index.ts" =>
        /\ \A p \in 0..(Len(data) - 1) :
              data[p + 1] = IAC =>
                 LET r == handleTelnetCommand(NewResolver, data, p)
                 IN  r.position >= p /\ r.position <= Len(data)
        /\ Len(buffer) + Len(CommandsOf(Enqueued)) <= Len(data)
        /\ Len(CommandsOf(Enqueued)) <= Len(data)

\* a chunk of three bytes 255 and three more has been handled: two commands
C38_Witness ==
    /\ pc = "index.ts"
    /\ data = <<IAC, IAC, IAC, IAC, ECHO, ECHO>>
    /\ Len(CommandsOf(Enqueued)) = 2
    /\ buffer = <<>>

----------------------------------------------------------------------------
(* Pending calls of next() of the EventResolver.                           *)

\* the number of calls of add among the calls from..to of the history
AddsIn(from, to) == Cardinality({k \in from..to : hist[k] = "add"})

\* the number of calls of next among the first k calls of the history
NextsIn(k) == Cardinality({i \in 1..k : hist[i] = "next"})

\* C34: a pending next() completes exactly once.  A call of next() that
\* registered a waiting consumer at position w of the wait list is pending
\* until w calls of add() have been made after it, is completed by the
\* w-th of them with the event of that call, and keeps that value from
\* then on.
C34_PendingCompletesOnce ==
    \A k \in 1..Len(hist) :
       hist[k] = "next" =>
          LET n == NextsIn(k)
              w == Len(trace[k + 1].resolveList)
          IN  trace[k + 1].promises[n] = <<>> =>
                 /\ w >= 1 /\ trace[k + 1].resolveList[w] = n
                 /\ \A t \in (k + 1)..Len(hist) :
                       LET a == AddsIn(k + 1, t)
                       IN  /\ a < w => trace[t + 1].promises[n] = <<>>
                           /\ a >= w => trace[t + 1].promises[n] # <<>>
                           /\ (a = w /\ hist[t] = "add")
                              => trace[t + 1].promises[n] = <<added[AddsIn(1, t)]>>
                           /\ (t < Len(hist) /\ trace[t + 1].promises[n] # <<>>)
                              => trace[t + 2].promises[n] = trace[t + 1].promises[n]

\* two consumers wait; the second one is completed by the second add()
\* after it, a falsy event, and the third add() leaves it alone
C34_Witness ==
    /\ hist = <<"next", "next", "add", "add", "add">>
    /\ added = <<JsString("a"), JsString(""), JsString("b")>>
    /\ resolver.promises = << <<JsString("a")>>, <<JsString("")>> >>
    /\ resolver.eventList = <<JsString("b")>>

----------------------------------------------------------------------------
(* sendCommand and the caller's array.                                     *)

\* C39: sendCommand and its argument.  A call of sendCommand leaves the
\* caller's array starting with 255: 255 is put in front of it in place
\* when it is missing, also when the socket is not writable, and an array
\* that starts with 255, as the array of an earlier call does, is left as
\* it is.  A writable socket is written the bytes of the array as left, so
\* two calls with the same array write the same bytes, and <<255>> for an
\* empty array; a socket that is not writable is written nothing.
C39_SendCommandTwice ==
    [][(calls' # calls /\ Last(calls').op = "sendCommand")
       => LET a == Last(calls').data
              missing == Len(a) = 0 \/ a[1] # IAC
          IN  /\ array' # <<>>
              /\ missing => array'[1] = <<IAC>> \o a
              /\ ~missing => array'[1] = a
              /\ (array # <<>> /\ a = array[1]) => array' = array
              /\ socket.writable
                 => socket'.written = Append(socket.written, array'[1])
              /\ (socket.writable /\ a = <<>>)
                 => Last(socket'.written) = <<255>>
              /\ ~socket.writable => socket' = socket]_vars

\* sendCommand has been called with an empty array and then with the same
\* array again: the array holds 255 and both calls wrote <<255>>
C39_Witness ==
    /\ calls = << [op |-> "sendCommand", data |-> <<>>],
                  [op |-> "sendCommand", data |-> <<IAC>>] >>
    /\ array = << <<IAC>> >>
    /\ socket.written = << <<255>>, <<255>> >>

----------------------------------------------------------------------------
(* The handlers of the signals drain, lookup, ready and timeout, and the    *)
(* connection under all eight signals of its socket.                       *)

\* { type: 'drain' }
DrainEvent == [t |-> "object", type |-> "drain"]

\* { type: 'lookup', error, address, family, host }
LookupEvent(error, address, family, host) ==
    [t |-> "object", type |-> "lookup", error |-> error, address |-> address,
     family |-> family, host |-> host]

\* { type: 'ready' }
ReadyEvent == [t |-> "object", type |-> "ready"]

\* { type: 'timeout' }
TimeoutEvent == [t |-> "object", type |-> "timeout"]

\* the null of a lookup that found an address
JsNull == [t |-> "null"]

\* the arguments of the lookup signal: a lookup that found an address and
\* one that failed
Lookups ==
    { <<JsNull, JsString("127.0.0.1"), JsNumber(4), JsString("localhost")>>,
      <<[t |-> "object", message |-> "ENOTFOUND"], JsUndefined, JsUndefined,
        JsString("nohost")>> }

\* the signals the constructor registers a handler for
Handlers ==
    {"close", "error", "drain", "lookup", "ready", "timeout", "data", "end"}

\* socket.on('drain', ...)
drainHandler(q) == AsyncQueue_add(q, DrainEvent)

\* socket.on('lookup', ...)
lookupHandler(q, error, address, family, host) ==
    AsyncQueue_add(q, LookupEvent(error, address, family, host))

\* socket.on('ready', ...)
readyHandler(q) == AsyncQueue_add(q, ReadyEvent)

\* A mutant of timeoutHandler: a timeout is reported as the end of the stream.
timeoutHandler_addsEnd(q) == AsyncQueue_add(q, EndEvent)

\* socket.on('timeout', ...)
timeoutHandler(q) == AsyncQueue_add(q, TimeoutEvent)

OnDrain ==
    /\ Len(Handed(connection)) < MaxEvents
    /\ connection' = drainHandler(connection)
    /\ signals' = Append(signals, Signal("drain", <<>>))
    /\ UNCHANGED <<connected, socket, gen, yielded, completed, calls, chunks>>
    /\ UNCHANGED <<queueVars, data, pc, buffer, serverVars, array, receivers>>

OnLookup(args) ==
    /\ Len(Handed(connection)) < MaxEvents
    /\ connection' = lookupHandler(connection, args[1], args[2], args[3], args[4])
    /\ signals' = Append(signals, Signal("lookup", args))
    /\ UNCHANGED <<connected, socket, gen, yielded, completed, calls, chunks>>
    /\ UNCHANGED <<queueVars, data, pc, buffer, serverVars, array, receivers>>

OnReady ==
    /\ Len(Handed(connection)) < MaxEvents
    /\ connection' = readyHandler(connection)
    /\ signals' = Append(signals, Signal("ready", <<>>))
    /\ UNCHANGED <<connected, socket, gen, yielded, completed, calls, chunks>>
    /\ UNCHANGED <<queueVars, data, pc, buffer, serverVars, array, receivers>>

OnTimeout ==
    /\ Len(Handed(connection)) < MaxEvents
    /\ connection' = timeoutHandler(connection)
    /\ signals' = Append(signals, Signal("timeout", <<>>))
    /\ UNCHANGED <<connected, socket, gen, yielded, completed, calls, chunks>>
    /\ UNCHANGED <<queueVars, data, pc, buffer, serverVars, array, receivers>>

\* The connection under every interleaving of the eight signals with the
\* pulls of one consumer.
SignalsNext ==
    \/ \E hasError \in BOOLEAN : OnClose(hasError)
    \/ \E error \in Errors : OnError(error)
    \/ OnDrain
    \/ \E args \in Lookups : OnLookup(args)
    \/ OnReady
    \/ OnTimeout
    \/ \E chunk \in ConnChunks : OnChunk(chunk)
    \/ OnEnd
    \/ Pull
    \/ Resume
    \/ SocketNotWritable

SpecSignals == ConnectionInit /\ [][SignalsNext]_vars

\* the events the handler of a signal adds to the queue
EventsOfSignal(s) ==
    CASE s.signal = "close"   -> <<CloseEvent(s.args[1])>>
      [] s.signal = "error"   -> <<ErrorEvent(s.args[1])>>
      [] s.signal = "drain"   -> <<DrainEvent>>
      [] s.signal = "lookup"  -> <<LookupEvent(s.args[1], s.args[2],
                                               s.args[3], s.args[4])>>
      [] s.signal = "ready"   -> <<ReadyEvent>>
      [] s.signal = "timeout" -> <<TimeoutEvent>>
      [] s.signal = "data"    -> EventsOf(s.args[1])
      [] s.signal = "end"     -> <<EndEvent>>

\* the events of a sequence of signals, signal after signal
RECURSIVE EventsOfSignals(_)
EventsOfSignals(ss) ==
    IF ss = <<>> THEN <<>>
    ELSE EventsOfSignal(Head(ss)) \o EventsOfSignals(Tail(ss))

\* C32: one handler per signal.  Every signal raised is one of the eight
\* the constructor registers a handler for; an occurrence of error, drain,
\* lookup, ready or timeout hands the queue exactly one event, of the type
\* of the signal and with its arguments, and leaves connected, the socket
\* and the consumer as they were.
C32_OneEventPerSignal ==
    [][signals' # signals
       => LET s == Last(signals')
          IN  /\ s.signal \in Handlers
              /\ s.signal \in {"error", "drain", "lookup", "ready", "timeout"}
                 => /\ Len(Handed(connection')) = Len(Handed(connection)) + 1
                    /\ SubSeq(Handed(connection'), 1, Len(Handed(connection)))
                          = Handed(connection)
                    /\ Last(Handed(connection')).type = s.signal
                    /\ <<Last(Handed(connection'))>> = EventsOfSignal(s)
                    /\ UNCHANGED <<connected, socket, gen, yielded, completed,
                                   calls>>]_vars

\* each of the five signals has occurred, in some run, on a connection whose
\* consumer was waiting: here a timeout, a drain and a failed lookup
C32_Witness ==
    /\ Len(signals) = 3
    /\ signals[1] = Signal("timeout", <<>>)
    /\ signals[2] = Signal("drain", <<>>)
    /\ signals[3].signal = "lookup" /\ signals[3].args[1] # JsNull
    /\ connection.promises = << <<TimeoutEvent>> >>
    /\ Len(connection.eventList) = 2
    /\ connected /\ socket = NewSocket

----------------------------------------------------------------------------
(* Two receive() sequences pulled on the same connection.                  *)

\* A mutant of SharedPull: a consumer that finds the other one waiting for
\* a pending promise waits for that promise too.
SharedPull_joins(c) ==
    /\ receivers.gens[c].gen = "suspended"
    /\ IF connected
       THEN LET waiting == {o \in Consumers \ {c} :
                               /\ receivers.gens[o].gen = "awaiting"
                               /\ connection.promises[receivers.gens[o].promise] = <<>>}
            IN  IF waiting # {}
                THEN /\ receivers' =
                           [receivers EXCEPT !.gens[c] =
                               [gen |-> "awaiting",
                                promise |-> receivers.gens[CHOOSE o \in waiting : TRUE].promise]]
                     /\ UNCHANGED connection
                ELSE /\ connection' = AsyncQueue_next(connection)
                     /\ receivers' =
                           [receivers EXCEPT !.gens[c] =
                               [gen |-> "awaiting",
                                promise |-> Len(connection.promises) + 1]]
       ELSE /\ receivers' = [receivers EXCEPT !.gens[c].gen = "done"]
            /\ UNCHANGED connection
    /\ UNCHANGED <<connected, socket, gen, yielded, completed, calls, chunks>>
    /\ UNCHANGED <<queueVars, data, pc, buffer, serverVars, signals, array>>

\* Consumer c asks its receive() generator for the next event: the
\* generator tests connected and either calls resolver.next() on the
\* connection's one queue and awaits the promise, or returns.
SharedPull(c) ==
    /\ receivers.gens[c].gen = "suspended"
    /\ IF connected
       THEN /\ connection' = AsyncQueue_next(connection)
            /\ receivers' =
                  [receivers EXCEPT !.gens[c] =
                      [gen |-> "awaiting",
                       promise |-> Len(connection.promises) + 1]]
       ELSE /\ receivers' = [receivers EXCEPT !.gens[c].gen = "done"]
            /\ UNCHANGED connection
    /\ UNCHANGED <<connected, socket, gen, yielded, completed, calls, chunks>>
    /\ UNCHANGED <<queueVars, data, pc, buffer, serverVars, signals, array>>

\* The promise consumer c's generator awaits is resolved: the generator
\* yields its value.
SharedResume(c) ==
    /\ receivers.gens[c].gen = "awaiting"
    /\ connection.promises[receivers.gens[c].promise] # <<>>
    /\ receivers' =
          [receivers EXCEPT
              !.gens[c].gen = "suspended",
              !.yielded = Append(@, [by |-> c,
                                     promise |-> receivers.gens[c].promise,
                                     event |-> connection.promises[receivers.gens[c].promise][1]])]
    /\ UNCHANGED <<connection, connected, socket, gen, yielded, completed, calls,
                   chunks>>
    /\ UNCHANGED <<queueVars, data, pc, buffer, serverVars, signals, array>>

SharedNext ==
    \/ \E chunk \in ConnChunks : OnChunk(chunk)
    \/ \E error \in Errors : OnError(error)
    \/ OnEnd
    \/ \E c \in Consumers : SharedPull(c)
    \/ \E c \in Consumers : SharedResume(c)

SpecShared == ConnectionInit /\ [][SharedNext]_vars

\* C35: shared receive state.  The pulls of the two sequences are served
\* as one line of pulls: the n-th pull made, by whichever consumer, gets
\* the n-th event enqueued, as soon as that event exists.  So no event is
\* yielded by both consumers, every event handed out has been yielded by
\* the consumer that pulled it or is held for it, and an event stays in the
\* backlog only while no pull is pending.
C35_SharedReceive ==
    LET ys == receivers.yielded
        exp == EventsOfSignals(signals)
        ps == connection.promises
    IN  /\ \A i \in 1..Len(ys) :
              /\ ys[i].promise <= Len(exp)
              /\ ys[i].event = exp[ys[i].promise]
        /\ \A i, j \in 1..Len(ys) : i # j => ys[i].promise # ys[j].promise
        /\ \A n \in 1..Len(ps) :
              /\ n <= Len(exp) => ps[n] = <<exp[n]>>
              /\ n > Len(exp) => ps[n] = <<>>
              /\ Cardinality({i \in 1..Len(ys) : ys[i].promise = n})
                 + Cardinality({c \in Consumers :
                                  receivers.gens[c] = [gen |-> "awaiting", promise |-> n]})
                 = 1
        /\ connection.eventList = SubSeq(exp, Len(ps) + 1, Len(exp))

\* both consumers have pulled and a chunk with a command has arrived: the
\* Command event went to B, which pulled first, the Data event to A
C35_Witness ==
    /\ Len(signals) = 1 /\ signals[1].signal = "data"
    /\ signals[1].args = << <<IAC, ECHO, ECHO>> >>
    /\ receivers.yielded =
          << [by |-> "B", promise |-> 1, event |-> CommandEvent(<<IAC, ECHO, ECHO>>)],
             [by |-> "A", promise |-> 2, event |-> DataEvent(<<>>)] >>
    /\ connected

----------------------------------------------------------------------------
(* A connection and a server alive at once, each with its own resolver.    *)

\* the Error objects the net.Server reports
ServerErrors == {[t |-> "object", message |-> "EMFILE"]}

\* the chunk the connection's socket delivers beside the server
BothChunks == {<<97>>}

\* The callbacks of the connection's socket and of the server's net.Server,
\* and the pulls of the consumers of receive() and of listen(), in every
\* interleaving.
BothNext ==
    \/ /\ Len(signals) + Len(log) < MaxCallbacks
       /\ \/ \E error \in Errors : OnError(error)
          \/ \E chunk \in BothChunks : OnChunk(chunk)
          \/ OnListening
          \/ OnConnection
          \/ \E error \in ServerErrors : OnServerError(error)
    \/ Pull
    \/ Resume
    \/ Listen
    \/ ListenPull
    \/ ListenResume

SpecBoth == ConnectionInit /\ [][BothNext]_vars

\* C31: no mixing across instances.  What receive() of the connection has
\* yielded are the first events of the connection's own signals, and none
\* of them is an event of a callback of the server; what listen() of the
\* server has yielded are the first events of the server's own callbacks,
\* and none of them is an event of a signal of the connection.
C31_NoMixing ==
    LET mine == EventsOfSignals(signals)
        theirs == EventsOfCalls(Len(log))
    IN  /\ Len(yielded) <= Len(mine)
        /\ \A i \in 1..Len(yielded) :
              /\ yielded[i] = mine[i]
              /\ \A k \in 1..Len(theirs) : yielded[i] # theirs[k]
        /\ Len(served) <= Len(theirs)
        /\ \A j \in 1..Len(served) :
              /\ served[j] = theirs[j]
              /\ \A k \in 1..Len(mine) : served[j] # mine[k]

\* both instances have had an error and more, and both consumers have been
\* given their own events
C31_Witness ==
    /\ Len(yielded) = 2 /\ yielded[1].type = "error" /\ yielded[2].type = "data"
    /\ Len(served) = 3
    /\ served[1] = StartEvent
    /\ served[2].type = "error"
    /\ served[3].type = "connect"

====
